---- MODULE Spec2Model ----
(***************************************************************************)
(* Model of the gateway process supervisor of the desktop shell            *)
(* (apps/desktop-tauri/src-tauri/src/gateway.rs): one shared               *)
(* GatewayProcess {child, logs} behind a tokio Mutex, and the four         *)
(* operations start_gateway, stop_gateway, is_gateway_running and          *)
(* get_gateway_logs, called concurrently by several tasks.                 *)
(*                                                                         *)
(* Each operation is split at its await points: the lock acquisition       *)
(* (state.lock().await), the body up to the next await, and the            *)
(* continuation after child.kill().await or reqwest::get(..).await.  The   *)
(* MutexGuard is dropped when the function returns, on every path.         *)
(***************************************************************************)
EXTENDS Integers, Sequences, FiniteSets, TLC

\* ---------------------------------------------------------------- bounds
NumCallers == 2
MaxCalls == 5

Callers == 1..NumCallers

\* ------------------------------------------------------------- constants
None == 0
NoCaller == 0

Ops == {"start", "stop", "is_running", "logs"}

StartedMarker == "[gateway] Started successfully"
StoppedMarker == "[gateway] Stopped"

AlreadyRunningMsg == <<"Gateway is already running">>
NotRunningMsg == <<"Gateway is not running">>
SpawnFailedPrefix == "Failed to start Gateway: "
KillFailedPrefix == "Failed to kill Gateway: "

\* io::Error values cmd.spawn() and child.kill() can produce
SpawnErrors == {"program not found", "permission denied"}
KillErrors == {"kill failed"}
NoOsErr == ""

\* what a GET of http://127.0.0.1:18789/health meets
EndpointStates == {"refused", "http_500", "http_200", "hang"}

VARIABLES
    child,      \* GatewayProcess.child: None or the pid of the owned Child
    logs,       \* GatewayProcess.logs
    holder,     \* owner of the Mutex<GatewayProcess>, NoCaller when free
    pc,         \* per caller: position inside the operation it runs
    op,         \* per caller: the operation of its current/last call
    res,        \* per caller: value returned by its last call
    pre,        \* per caller: {child, logs} as seen when it took the lock
    oserr,      \* per caller: io::Error its current/last call received
    probed,     \* per caller: its current/last call issued reqwest::get
    endpoint,   \* environment: state of the health endpoint
    procs,      \* environment: pids of spawned children still alive
    nextPid,    \* environment: pid the next spawn gets
    calls,      \* number of operations invoked so far
    lastOk,     \* most recent operation that returned Ok: none/start/stop
    lastStart,  \* error of the most recent Start attempt, <<>> if none
    pipe,       \* lines the current child wrote to its piped stdout/stderr
    cmd,        \* per caller: services/command function it runs
    cpc,        \* per caller: position inside that function
    report,     \* per caller: the Vec<ServiceStatus> being built
    seen,       \* per caller: what each probe of that function met
    starts      \* per caller: services that function issued a start on

svcvars == <<cmd, cpc, report, seen, starts>>

vars == <<child, logs, holder, pc, op, res, pre, oserr, probed,
          endpoint, procs, nextPid, calls, lastOk, lastStart, pipe, svcvars>>

\* ------------------------------------------------------ returned values
NoRes == [kind |-> "none", err |-> <<>>, flag |-> FALSE, out |-> <<>>]
OkUnit == [kind |-> "ok", err |-> <<>>, flag |-> FALSE, out |-> <<>>]
Err(m) == [kind |-> "err", err |-> m, flag |-> FALSE, out |-> <<>>]
BoolRes(b) == [kind |-> "bool", err |-> <<>>, flag |-> b, out |-> <<>>]
LogsRes(l) == [kind |-> "logs", err |-> <<>>, flag |-> FALSE, out |-> l]

NoPre == [child |-> None, logs |-> <<>>, alive |-> FALSE]

\* nothing probed yet
NoSeen == [gw |-> NoRes, lastStart0 |-> <<>>, lastStart |-> <<>>,
           ollama |-> "", docker |-> "",
           ps |-> [err |-> FALSE, stdout |-> <<>>]]

\* ------------------------------------------------------- GatewayProcess
Init ==
    /\ child = None
    /\ logs = <<>>
    /\ holder = NoCaller
    /\ pc = [c \in Callers |-> "idle"]
    /\ op = [c \in Callers |-> "logs"]
    /\ res = [c \in Callers |-> NoRes]
    /\ pre = [c \in Callers |-> NoPre]
    /\ oserr = [c \in Callers |-> NoOsErr]
    /\ probed = [c \in Callers |-> FALSE]
    /\ endpoint \in EndpointStates
    /\ procs = {}
    /\ nextPid = 1
    /\ calls = 0
    /\ lastOk = "none"
    /\ lastStart = <<>>
    /\ pipe = <<>>
    /\ cmd = [c \in Callers |-> "none"]
    /\ cpc = [c \in Callers |-> "none"]
    /\ report = [c \in Callers |-> <<>>]
    /\ seen = [c \in Callers |-> NoSeen]
    /\ starts = [c \in Callers |-> <<>>]

\* A task invokes one of the four operations.
Call(c, o) ==
    /\ pc[c] = "idle"
    /\ cpc[c] \in {"none", "done"}
    /\ calls < MaxCalls
    /\ pc' = [pc EXCEPT ![c] = "wait_lock"]
    /\ op' = [op EXCEPT ![c] = o]
    /\ res' = [res EXCEPT ![c] = NoRes]
    /\ oserr' = [oserr EXCEPT ![c] = NoOsErr]
    /\ probed' = [probed EXCEPT ![c] = FALSE]
    /\ calls' = calls + 1
    /\ UNCHANGED <<child, logs, holder, pre, endpoint, procs, nextPid, lastOk,
                   lastStart, pipe, svcvars>>

\* state.lock().await completes
Acquire(c) ==
    /\ pc[c] = "wait_lock"
    /\ holder = NoCaller
    /\ holder' = c
    /\ pc' = [pc EXCEPT ![c] = "locked"]
    /\ pre' = [pre EXCEPT ![c] = [child |-> child, logs |-> logs,
                                 alive |-> child \in procs]]
    /\ UNCHANGED <<child, logs, op, res, oserr, probed, endpoint, procs,
                   nextPid, calls, lastOk, lastStart, pipe, svcvars>>

Return_LockKeptOnErr(c, r) ==
    /\ pc' = [pc EXCEPT ![c] = "idle"]
    /\ res' = [res EXCEPT ![c] = r]
    /\ pre' = [pre EXCEPT ![c] = NoPre]
    /\ holder' = IF r.kind = "err" THEN holder ELSE NoCaller

\* the function returns r; the MutexGuard goes out of scope
Return(c, r) ==
    /\ pc' = [pc EXCEPT ![c] = "idle"]
    /\ res' = [res EXCEPT ![c] = r]
    /\ pre' = [pre EXCEPT ![c] = NoPre]
    /\ holder' = NoCaller

\* ------------------------------------------------------- start_gateway
StartGuard_Never == FALSE

StartGuard == child # None

SpawnedChild_Dropped(pid) == None

SpawnedChild(pid) == pid

StartedLogs_NoMarker == logs

StartedLogs == Append(logs, StartedMarker)

SpawnFailedErr_NoReason(e) == Err(<<SpawnFailedPrefix>>)

SpawnFailedErr(e) == Err(<<SpawnFailedPrefix, e>>)

StartGateway(c) ==
    /\ pc[c] = "locked"
    /\ op[c] = "start"
    /\ holder = c
    /\ IF StartGuard
       THEN /\ Return(c, Err(AlreadyRunningMsg))
            /\ lastStart' = AlreadyRunningMsg
            /\ UNCHANGED <<child, logs, oserr, procs, nextPid, lastOk, pipe>>
       ELSE \/ /\ child' = SpawnedChild(nextPid)
               /\ logs' = StartedLogs
               /\ procs' = procs \cup {nextPid}
               /\ nextPid' = nextPid + 1
               /\ lastOk' = "start"
               /\ lastStart' = <<>>
               /\ pipe' = <<>>
               /\ Return(c, OkUnit)
               /\ UNCHANGED oserr
            \/ \E e \in SpawnErrors :
                 /\ oserr' = [oserr EXCEPT ![c] = e]
                 /\ Return(c, SpawnFailedErr(e))
                 /\ lastStart' = SpawnFailedErr(e).err
                 /\ UNCHANGED <<child, logs, procs, nextPid, lastOk, pipe>>
    /\ UNCHANGED <<op, probed, endpoint, calls, svcvars>>

\* -------------------------------------------------------- stop_gateway
StopGuard_Always == TRUE

StopGuard == child # None

KillFailedErr(e) == Err(<<KillFailedPrefix, e>>)

KillFailedChild_Taken == None

\* the ? on line 68 returns before the handle is touched
KillFailedChild == child

StoppedChild_Kept == child

\* gw.child = None
StoppedChild == None

StoppedLogs_Reset == <<StoppedMarker>>

StoppedLogs == Append(logs, StoppedMarker)

\* up to the await inside child.kill(): start_kill() sends the signal
StopGateway(c) ==
    /\ pc[c] = "locked"
    /\ op[c] = "stop"
    /\ holder = c
    /\ IF StopGuard
       THEN \/ /\ procs' = procs \ {child}
               /\ pc' = [pc EXCEPT ![c] = "killing"]
               /\ UNCHANGED <<child, res, pre, holder, oserr>>
            \/ \E e \in KillErrors :
                 /\ oserr' = [oserr EXCEPT ![c] = e]
                 /\ Return(c, KillFailedErr(e))
                 /\ child' = KillFailedChild
                 /\ UNCHANGED procs
       ELSE /\ Return(c, Err(NotRunningMsg))
            /\ UNCHANGED <<child, oserr, procs>>
    /\ UNCHANGED <<logs, op, probed, endpoint, nextPid, calls, lastOk,
                   lastStart, pipe, svcvars>>

\* child.kill().await completes: wait() reaped the child, or failed
StopWait(c) ==
    /\ pc[c] = "killing"
    /\ holder = c
    /\ \/ /\ child' = StoppedChild
          /\ logs' = StoppedLogs
          /\ lastOk' = "stop"
          /\ Return(c, OkUnit)
          /\ UNCHANGED oserr
       \/ \E e \in KillErrors :
            /\ oserr' = [oserr EXCEPT ![c] = e]
            /\ Return(c, KillFailedErr(e))
            /\ child' = KillFailedChild
            /\ UNCHANGED <<logs, lastOk>>
    /\ UNCHANGED <<op, probed, endpoint, procs, nextPid, calls, lastStart,
                   pipe, svcvars>>

\* -------------------------------------------------- is_gateway_running
IsRunningGuard_Never == FALSE

IsRunningGuard == child = None

ProbeResult_AnyResponse(e) == e # "refused"

\* Ok(resp) => resp.status().is_success(), Err(_) => false
ProbeResult(e) == e = "http_200"

\* up to reqwest::get(..).await
IsGatewayRunning(c) ==
    /\ pc[c] = "locked"
    /\ op[c] = "is_running"
    /\ holder = c
    /\ IF IsRunningGuard
       THEN /\ Return(c, BoolRes(FALSE))
            /\ UNCHANGED probed
       ELSE /\ probed' = [probed EXCEPT ![c] = TRUE]
            /\ pc' = [pc EXCEPT ![c] = "probing"]
            /\ UNCHANGED <<res, pre, holder>>
    /\ UNCHANGED <<child, logs, op, oserr, endpoint, procs, nextPid, calls,
                   lastOk, lastStart, pipe, svcvars>>

\* reqwest::get(..).await completes with a response or an error
ProbeReturn(c) ==
    /\ pc[c] = "probing"
    /\ holder = c
    /\ endpoint # "hang"
    /\ Return(c, BoolRes(ProbeResult(endpoint)))
    /\ UNCHANGED <<child, logs, op, oserr, probed, endpoint, procs, nextPid,
                   calls, lastOk, lastStart, pipe, svcvars>>

\* ---------------------------------------------------- get_gateway_logs
LogsSnapshot == logs

GetGatewayLogs_AfterChildExit(c) ==
    /\ pc[c] = "locked"
    /\ op[c] = "logs"
    /\ holder = c
    /\ procs = {}
    /\ Return(c, LogsRes(LogsSnapshot))
    /\ UNCHANGED <<child, logs, op, oserr, probed, endpoint, procs, nextPid,
                   calls, lastOk, lastStart, pipe, svcvars>>

GetGatewayLogs(c) ==
    /\ pc[c] = "locked"
    /\ op[c] = "logs"
    /\ holder = c
    /\ Return(c, LogsRes(LogsSnapshot))
    /\ UNCHANGED <<child, logs, op, oserr, probed, endpoint, procs, nextPid,
                   calls, lastOk, lastStart, pipe, svcvars>>

\* --------------------------------------------------------- environment
\* the health endpoint starts or stops answering
EndpointChange(e) ==
    /\ e # endpoint
    /\ endpoint' = e
    /\ UNCHANGED <<child, logs, holder, pc, op, res, pre, oserr, probed,
                   procs, nextPid, calls, lastOk, lastStart, pipe, svcvars>>

ChildExit_ClearsHandle ==
    /\ \E p \in procs : procs' = procs \ {p}
    /\ child' = None
    /\ UNCHANGED <<logs, holder, pc, op, res, pre, oserr, probed,
                   endpoint, nextPid, calls, lastOk, lastStart, pipe, svcvars>>

\* the spawned child exits on its own; no code waits on it or polls it
ChildExit ==
    /\ \E p \in procs : procs' = procs \ {p}
    /\ UNCHANGED <<child, logs, holder, pc, op, res, pre, oserr, probed,
                   endpoint, nextPid, calls, lastOk, lastStart, pipe, svcvars>>

Next ==
    \/ \E c \in Callers, o \in Ops : Call(c, o)
    \/ \E c \in Callers : Acquire(c)
    \/ \E c \in Callers : StartGateway(c)
    \/ \E c \in Callers : StopGateway(c)
    \/ \E c \in Callers : StopWait(c)
    \/ \E c \in Callers : IsGatewayRunning(c)
    \/ \E c \in Callers : ProbeReturn(c)
    \/ \E c \in Callers : GetGatewayLogs(c)
    \/ \E e \in EndpointStates : EndpointChange(e)
    \/ ChildExit

Spec == Init /\ [][Next]_vars

\* ============================================================ services.rs
Commands == {"collect", "auto_start", "gateway_status"}

\* gateway functions the command surface calls on their own
\* (gateway_cmd.rs start_gateway, stop_gateway)
DirectOps == {"start", "stop"}

\* a services/command function counts as this many operations
CmdWeight == 3

GatewayPort == 18789
OllamaPort == 11434
SearxngPort == 8888
NoPort == 0

NoDetails == <<>>
SomeDetails(m) == <<"Some">> \o m

\* what a GET of http://localhost:11434 meets (ollama.rs detect_ollama)
OllamaOutcomes == {"refused", "http_500", "http_200"}

\* Command::new("docker").arg("info").output(): Err, or Ok with exit status
DockerInfoOutcomes == {"spawn_error", "exit_nonzero", "exit_zero"}

\* stdout of docker ps --filter name=alfred-searxng --format {{.Status}}
PsOutputs == {<<>>, <<"Up", "2", "hours">>, <<"Restarting", "(1)">>}

\* Command::new("docker").args(["ps", ..]).output(): Err, or Ok with stdout
DockerPsOutcomes ==
    {[err |-> TRUE, stdout |-> <<>>]} \cup
    {[err |-> FALSE, stdout |-> t] : t \in PsOutputs}

ServiceStatus(n, r, p, h, d) ==
    [name |-> n, running |-> r, port |-> p, health |-> h, details |-> d]

\* ollama.rs: Ok(resp) => resp.status().is_success(), Err(_) => false
DetectOllama(o) == o = "http_200"

\* docker.rs: .output().map(|o| o.status.success()).unwrap_or(false)
IsDockerAvailable(d) == d = "exit_zero"

Contains(t, w) == \E i \in 1..Len(t) : t[i] = w

\* docker.rs: Ok(o) => status.trim().contains("Up"), Err(_) => false
IsSearxngRunning(p) == IF p.err THEN FALSE ELSE Contains(p.stdout, "Up")

GatewayEntry_ErrorWhenDown(running) ==
    ServiceStatus("Gateway", running, GatewayPort,
                  IF running THEN "healthy" ELSE "error", NoDetails)

GatewayEntry(running) ==
    ServiceStatus("Gateway", running, GatewayPort,
                  IF running THEN "healthy" ELSE "not running", NoDetails)

OllamaEntry_NotInstalled(running) ==
    ServiceStatus("Ollama", running, OllamaPort,
                  IF running THEN "healthy" ELSE "not installed", NoDetails)

OllamaEntry(running) ==
    ServiceStatus("Ollama", running, OllamaPort,
                  IF running THEN "healthy" ELSE "not running", NoDetails)

DockerEntry(available) ==
    ServiceStatus("Docker", available, NoPort,
                  IF available THEN "available" ELSE "not installed",
                  NoDetails)

SearxngEntry(running) ==
    ServiceStatus("SearXNG", running, SearxngPort,
                  IF running THEN "healthy" ELSE "not running", NoDetails)

BootGatewayEntry_NoDetails(r) ==
    IF r.kind = "ok"
    THEN ServiceStatus("Gateway", TRUE, GatewayPort, "starting",
                       SomeDetails(<<"Gateway process started">>))
    ELSE ServiceStatus("Gateway", FALSE, GatewayPort, "error", NoDetails)

\* auto_start: match start_gateway(..).await { Ok(_) => .., Err(e) => .. }
BootGatewayEntry(r) ==
    IF r.kind = "ok"
    THEN ServiceStatus("Gateway", TRUE, GatewayPort, "starting",
                       SomeDetails(<<"Gateway process started">>))
    ELSE ServiceStatus("Gateway", FALSE, GatewayPort, "error",
                       SomeDetails(r.err))

\* gateway_cmd.rs GatewayStatus
GatewayStatus(running, l) ==
    [running |-> running, port |-> GatewayPort,
     health |-> IF running THEN "healthy" ELSE "not running", logs |-> l]

CollectTail_SkipFailed(rep, o, d, p) ==
    rep \o (IF DetectOllama(o)
            THEN <<OllamaEntry(TRUE)>> ELSE <<>>)
        \o (IF IsDockerAvailable(d)
            THEN <<DockerEntry(TRUE)>> ELSE <<>>)
        \o (IF IsSearxngRunning(p)
            THEN <<SearxngEntry(TRUE)>> ELSE <<>>)

\* the three pushes of check_all_services after the Gateway entry
CollectTail(rep, o, d, p) ==
    rep \o << OllamaEntry(DetectOllama(o)),
              DockerEntry(IsDockerAvailable(d)),
              SearxngEntry(IsSearxngRunning(p)) >>

\* the push of auto_start after the Gateway entry
AutoStartTail(rep, o) == Append(rep, OllamaEntry(DetectOllama(o)))

DetectOnlyStarts_StartIfDown(running) ==
    IF running THEN <<>> ELSE <<"Ollama">>

\* starts auto_start issues on the services it only detects: none
DetectOnlyStarts(running) == <<>>

\* the gateway function a services/command function calls first
FirstOp(k) == IF k = "auto_start" THEN "start" ELSE "is_running"

\* the function calls into gateway.rs: same effect as a direct call
IssueGatewayOp(c, o) ==
    /\ pc' = [pc EXCEPT ![c] = "wait_lock"]
    /\ op' = [op EXCEPT ![c] = o]
    /\ res' = [res EXCEPT ![c] = NoRes]
    /\ oserr' = [oserr EXCEPT ![c] = NoOsErr]
    /\ probed' = [probed EXCEPT ![c] = FALSE]

\* the gateway function called by c's services function has returned
InnerReturned(c) == pc[c] = "idle" /\ res[c].kind # "none"

\* a task invokes check_all_services, auto_start or gateway_status
Invoke(c, k) ==
    /\ pc[c] = "idle"
    /\ cpc[c] \in {"none", "done"}
    /\ calls + CmdWeight <= MaxCalls
    /\ calls' = calls + CmdWeight
    /\ cmd' = [cmd EXCEPT ![c] = k]
    /\ cpc' = [cpc EXCEPT ![c] = "gw"]
    /\ report' = [report EXCEPT ![c] = <<>>]
    /\ seen' = [seen EXCEPT ![c] = [NoSeen EXCEPT !.lastStart0 = lastStart]]
    /\ starts' = [starts EXCEPT ![c] =
                    IF k = "auto_start" THEN <<"Gateway">> ELSE <<>>]
    /\ IssueGatewayOp(c, FirstOp(k))
    /\ UNCHANGED <<child, logs, holder, pre, endpoint, procs, nextPid, lastOk,
                   lastStart, pipe>>

\* check_all_services: is_gateway_running returned, push, GET ollama
CollectGateway(c) ==
    /\ cmd[c] = "collect"
    /\ cpc[c] = "gw"
    /\ InnerReturned(c)
    /\ report' = [report EXCEPT ![c] = <<GatewayEntry(res[c].flag)>>]
    /\ seen' = [seen EXCEPT ![c].gw = res[c], ![c].lastStart = lastStart]
    /\ cpc' = [cpc EXCEPT ![c] = "ollama"]
    /\ UNCHANGED <<child, logs, holder, pc, op, res, pre, oserr, probed,
                   endpoint, procs, nextPid, calls, lastOk, lastStart, pipe,
                   cmd, starts>>

\* check_all_services: detect_ollama returned, docker info, docker ps, return
CollectFinish(c) ==
    /\ cmd[c] = "collect"
    /\ cpc[c] = "ollama"
    /\ \E o \in OllamaOutcomes, d \in DockerInfoOutcomes,
          p \in DockerPsOutcomes :
         /\ report' = [report EXCEPT ![c] = CollectTail(report[c], o, d, p)]
         /\ seen' = [seen EXCEPT ![c].ollama = o, ![c].docker = d,
                                 ![c].ps = p]
    /\ cpc' = [cpc EXCEPT ![c] = "done"]
    /\ UNCHANGED <<child, logs, holder, pc, op, res, pre, oserr, probed,
                   endpoint, procs, nextPid, calls, lastOk, lastStart, pipe,
                   cmd, starts>>

\* auto_start: start_gateway returned, push, GET ollama
AutoStartGateway(c) ==
    /\ cmd[c] = "auto_start"
    /\ cpc[c] = "gw"
    /\ InnerReturned(c)
    /\ report' = [report EXCEPT ![c] = <<BootGatewayEntry(res[c])>>]
    /\ seen' = [seen EXCEPT ![c].gw = res[c]]
    /\ cpc' = [cpc EXCEPT ![c] = "ollama"]
    /\ UNCHANGED <<child, logs, holder, pc, op, res, pre, oserr, probed,
                   endpoint, procs, nextPid, calls, lastOk, lastStart, pipe,
                   cmd, starts>>

\* auto_start: detect_ollama returned, push, return
AutoStartFinish(c) ==
    /\ cmd[c] = "auto_start"
    /\ cpc[c] = "ollama"
    /\ \E o \in OllamaOutcomes :
         /\ report' = [report EXCEPT ![c] = AutoStartTail(report[c], o)]
         /\ seen' = [seen EXCEPT ![c].ollama = o]
         /\ starts' = [starts EXCEPT ![c] =
                         starts[c] \o DetectOnlyStarts(DetectOllama(o))]
    /\ cpc' = [cpc EXCEPT ![c] = "done"]
    /\ UNCHANGED <<child, logs, holder, pc, op, res, pre, oserr, probed,
                   endpoint, procs, nextPid, calls, lastOk, lastStart, pipe,
                   cmd>>

\* gateway_status: is_gateway_running returned, call get_gateway_logs
StatusLogs(c) ==
    /\ cmd[c] = "gateway_status"
    /\ cpc[c] = "gw"
    /\ InnerReturned(c)
    /\ seen' = [seen EXCEPT ![c].gw = res[c]]
    /\ cpc' = [cpc EXCEPT ![c] = "logs"]
    /\ IssueGatewayOp(c, "logs")
    /\ UNCHANGED <<child, logs, holder, pre, endpoint, procs, nextPid, calls,
                   lastOk, lastStart, pipe, cmd, report, starts>>

\* gateway_status: get_gateway_logs returned, build GatewayStatus, return
StatusFinish(c) ==
    /\ cmd[c] = "gateway_status"
    /\ cpc[c] = "logs"
    /\ InnerReturned(c)
    /\ report' = [report EXCEPT ![c] =
                    <<GatewayStatus(seen[c].gw.flag, res[c].out)>>]
    /\ cpc' = [cpc EXCEPT ![c] = "done"]
    /\ UNCHANGED <<child, logs, holder, pc, op, res, pre, oserr, probed,
                   endpoint, procs, nextPid, calls, lastOk, lastStart, pipe,
                   cmd, seen, starts>>

SvcNext ==
    \/ \E c \in Callers, k \in Commands : Invoke(c, k)
    \/ \E c \in Callers : CollectGateway(c)
    \/ \E c \in Callers : CollectFinish(c)
    \/ \E c \in Callers : AutoStartGateway(c)
    \/ \E c \in Callers : AutoStartFinish(c)
    \/ \E c \in Callers : StatusLogs(c)
    \/ \E c \in Callers : StatusFinish(c)
    \/ \E c \in Callers, o \in DirectOps : Call(c, o)
    \/ \E c \in Callers : Acquire(c)
    \/ \E c \in Callers : StartGateway(c)
    \/ \E c \in Callers : StopGateway(c)
    \/ \E c \in Callers : StopWait(c)
    \/ \E c \in Callers : IsGatewayRunning(c)
    \/ \E c \in Callers : ProbeReturn(c)
    \/ \E c \in Callers : GetGatewayLogs(c)
    \/ \E e \in EndpointStates : EndpointChange(e)

SvcSpec == Init /\ [][SvcNext]_vars

\* ------------------------------------------------- child output, fairness
MaxLines == 1

ChildLines == {"gateway listening on 18789"}

\* the running child writes a line to its stdout/stderr, which start_gateway
\* set to Stdio::piped(); no code takes or reads the pipe ends
ChildWrite(l) ==
    /\ child # None
    /\ child \in procs
    /\ Len(pipe) < MaxLines
    /\ pipe' = Append(pipe, l)
    /\ UNCHANGED <<child, logs, holder, pc, op, res, pre, oserr, probed,
                   endpoint, procs, nextPid, calls, lastOk, lastStart,
                   svcvars>>

LiveNext ==
    \/ \E c \in Callers, o \in Ops : Call(c, o)
    \/ \E c \in Callers : Acquire(c)
    \/ \E c \in Callers : StartGateway(c)
    \/ \E c \in Callers : StopGateway(c)
    \/ \E c \in Callers : StopWait(c)
    \/ \E c \in Callers : IsGatewayRunning(c)
    \/ \E c \in Callers : ProbeReturn(c)
    \/ \E c \in Callers : GetGatewayLogs(c)
    \/ \E e \in EndpointStates : EndpointChange(e)
    \/ ChildExit
    \/ \E l \in ChildLines : ChildWrite(l)

\* the tokio runtime polls every ready task, the mutex hands the lock to
\* its waiters in turn, a killed child exits, and a GET returns if the
\* endpoint answers or refuses again and again; the environment (endpoint,
\* child output) owes nothing
Fairness ==
    \A c \in Callers :
        /\ SF_vars(Acquire(c))
        /\ WF_vars(StartGateway(c))
        /\ WF_vars(StopGateway(c))
        /\ WF_vars(StopWait(c))
        /\ WF_vars(IsGatewayRunning(c))
        /\ SF_vars(ProbeReturn(c))
        /\ WF_vars(GetGatewayLogs(c))

LiveSpec == Init /\ [][LiveNext]_vars /\ Fairness

TypeOK ==
    /\ child \in 0..MaxCalls
    /\ holder \in {NoCaller} \cup Callers
    /\ \A c \in Callers :
         pc[c] \in {"idle", "wait_lock", "locked", "killing", "probing"}
    /\ endpoint \in EndpointStates
    /\ calls \in 0..MaxCalls
    /\ lastOk \in {"none", "start", "stop"}

\* ===================================================== checked properties
IsPrefix(s, t) == Len(s) <= Len(t) /\ SubSeq(t, 1, Len(s)) = s

\* caller c's call to operation o returns in this step
Returns(c, o) == pc[c] # "idle" /\ pc'[c] = "idle" /\ op[c] = o

\* caller c has completed a call of o whose result is still on record
Returned(c, o) == pc[c] = "idle" /\ op[c] = o /\ res[c].kind # "none"

\* C1: a Start whose body runs while a handle is tracked returns the
\* AlreadyRunning error and leaves the handle, the log buffer and the set of
\* spawned children exactly as they were (no second spawn, no replacement).
C1_StartWhileTracked ==
    [][\A c \in Callers :
         (Returns(c, "start") /\ pre[c].child # None) =>
            /\ res'[c] = Err(AlreadyRunningMsg)
            /\ child' = pre[c].child
            /\ logs' = pre[c].logs
            /\ procs' = procs
            /\ nextPid' = nextPid]_vars

C1_Witness ==
    \E c \in Callers :
        /\ Returned(c, "start")
        /\ res[c] = Err(AlreadyRunningMsg)
        /\ child # None
        /\ lastOk = "start"

\* C2: when every caller has invoked Start exactly once on the stopped
\* supervisor, in any interleaving, and no spawn failed, exactly one call
\* returned Ok, every other returned AlreadyRunning, and exactly one child
\* was spawned and is the tracked handle.
AllStartedOnce ==
    /\ calls = NumCallers
    /\ \A c \in Callers : Returned(c, "start") /\ oserr[c] = NoOsErr

C2_ConcurrentStart ==
    AllStartedOnce =>
        /\ Cardinality({c \in Callers : res[c] = OkUnit}) = 1
        /\ \A c \in Callers : res[c] \in {OkUnit, Err(AlreadyRunningMsg)}
        /\ child = 1
        /\ nextPid = 2

C2_Witness ==
    /\ AllStartedOnce
    /\ \E c, d \in Callers :
          /\ c # d
          /\ res[c] = OkUnit
          /\ res[d] = Err(AlreadyRunningMsg)

\* C3: a handle is tracked exactly when the most recent successful operation
\* is a Start (some Start succeeded and no Stop succeeded since); the code
\* has no step that observes an exit.  At most one spawned child is alive,
\* and it is the tracked one.
C3_HandleIffStarted ==
    /\ (child # None) <=> (lastOk = "start")
    /\ Cardinality(procs) <= 1
    /\ procs \subseteq {child} \ {None}

C3_Witness ==
    /\ child = None
    /\ lastOk = "stop"
    /\ nextPid > 2

\* C4: a Stop whose body runs while no handle is tracked returns the
\* NotRunning error, leaves the handle absent and appends nothing.
C4_StopWhileStopped ==
    [][\A c \in Callers :
         (Returns(c, "stop") /\ pre[c].child = None) =>
            /\ pc[c] = "locked"
            /\ res'[c] = Err(NotRunningMsg)
            /\ child' = None
            /\ logs' = pre[c].logs]_vars

C4_Witness ==
    \E c \in Callers :
        /\ Returned(c, "stop")
        /\ res[c] = Err(NotRunningMsg)
        /\ lastOk = "stop"
        /\ child = None

\* C5: a Start whose spawn fails with io error e returns the SpawnFailed
\* error carrying e, records no handle, spawns nothing and appends no
\* "started" marker.
C5_SpawnFailed ==
    [][\A c \in Callers :
         (Returns(c, "start") /\ oserr'[c] # NoOsErr) =>
            /\ res'[c] = Err(<<SpawnFailedPrefix, oserr'[c]>>)
            /\ child' = None
            /\ logs' = pre[c].logs
            /\ procs' = procs
            /\ lastOk' = lastOk]_vars

C5_Witness ==
    \E c \in Callers :
        /\ Returned(c, "start")
        /\ oserr[c] \in SpawnErrors
        /\ res[c].kind = "err"
        /\ child = None

\* C6: a Stop whose kill fails with io error e returns the KillFailed error
\* carrying e, keeps the same handle tracked and appends no "stopped"
\* marker; and a Stop that finds a handle is never answered NotRunning.
C6_KillFailed ==
    [][\A c \in Callers :
         /\ (Returns(c, "stop") /\ oserr'[c] # NoOsErr) =>
               /\ res'[c] = Err(<<KillFailedPrefix, oserr'[c]>>)
               /\ child' = pre[c].child
               /\ child' # None
               /\ logs' = pre[c].logs
               /\ lastOk' = lastOk
         /\ (Returns(c, "stop") /\ pre[c].child # None) =>
               res'[c] # Err(NotRunningMsg)]_vars

\* a second Stop is inside kill() on handle 1 after a first one failed
C6_Witness ==
    \E c, d \in Callers :
        /\ c # d
        /\ Returned(c, "stop")
        /\ oserr[c] \in KillErrors
        /\ op[d] = "stop"
        /\ pc[d] = "killing"
        /\ child = 1

\* C7: IsRunning always returns a boolean, never an error; it is true
\* exactly when a handle is tracked and the probe it issued got a success
\* status (a refused connection or a non-success status give false); with
\* no handle tracked it returns false without issuing a probe.
C7_IsRunningIff ==
    [][\A c \in Callers :
         Returns(c, "is_running") =>
            /\ res'[c] = BoolRes(/\ pre[c].child # None
                                 /\ probed'[c]
                                 /\ endpoint = "http_200")
            /\ (pre[c].child = None) => ~probed'[c]]_vars

C7_Witness ==
    \E c, d \in Callers :
        /\ Returned(c, "is_running")
        /\ res[c] = BoolRes(TRUE)
        /\ probed[c]
        /\ Returned(d, "is_running")
        /\ res[d] = BoolRes(FALSE)
        /\ probed[d]

\* C8: while the most recent successful operation is a Start, IsRunning
\* returns false as long as the endpoint does not answer with success and
\* true when it does; once the most recent successful operation is a Stop,
\* IsRunning returns false whatever the endpoint answers.
C8_IsRunningFollowsStartStop ==
    [][\A c \in Callers :
         Returns(c, "is_running") =>
            /\ (lastOk = "stop") => res'[c] = BoolRes(FALSE)
            /\ (lastOk = "start") =>
                  res'[c] = BoolRes(endpoint = "http_200")]_vars

\* IsRunning answered false after a Stop while the endpoint still answers
C8_Witness ==
    \E c \in Callers :
        /\ Returned(c, "is_running")
        /\ res[c] = BoolRes(FALSE)
        /\ lastOk = "stop"
        /\ endpoint = "http_200"
        /\ \A d \in Callers : pc[d] = "idle"

\* C9: once some Start has succeeded, every Logs call returns a non-empty
\* sequence whose first entry is the "started" marker, in every later
\* Start/Stop cycle as well.
C9_LogsStartWithStarted ==
    [][\A c \in Callers :
         (Returns(c, "logs") /\ lastOk # "none") =>
            /\ res'[c].kind = "logs"
            /\ Len(res'[c].out) >= 1
            /\ res'[c].out[1] = StartedMarker]_vars

\* Logs returned during the second cycle
C9_Witness ==
    \E c \in Callers :
        /\ Returned(c, "logs")
        /\ Len(res[c].out) = 3
        /\ res[c].out[1] = StartedMarker
        /\ nextPid = 3
        /\ child = 2

\* C10: the log buffer changes only by appending one marker; a successful
\* Stop appends exactly the "stopped" marker to what was there; Logs returns
\* the whole buffer, so every earlier Logs result is a prefix of a later one.
C10_LogsAppendOnly ==
    [][/\ \/ logs' = logs
          \/ \E m \in {StartedMarker, StoppedMarker} : logs' = Append(logs, m)
       /\ \A c \in Callers :
            /\ (Returns(c, "stop") /\ res'[c] = OkUnit) =>
                  logs' = Append(pre[c].logs, StoppedMarker)
            /\ Returns(c, "logs") =>
                  /\ res'[c] = LogsRes(pre[c].logs)
                  /\ logs' = pre[c].logs
                  /\ \A d \in Callers :
                        res[d].kind = "logs" =>
                           IsPrefix(res[d].out, res'[c].out)]_vars

\* Logs called while stopped returns the started and the stopped marker
C10_Witness ==
    \E c \in Callers :
        /\ Returned(c, "logs")
        /\ res[c].out = <<StartedMarker, StoppedMarker>>
        /\ child = None
        /\ logs = res[c].out

\* --------------------------------------------- services.rs properties
CollectDone(c) == cmd[c] = "collect" /\ cpc[c] = "done"

AutoDone(c) == cmd[c] = "auto_start" /\ cpc[c] = "done"

StatusDone(c) == cmd[c] = "gateway_status" /\ cpc[c] = "done"

Names(rep) == [i \in 1..Len(rep) |-> rep[i].name]

UpInStdout(p) == ~p.err /\ \E i \in 1..Len(p.stdout) : p.stdout[i] = "Up"

\* C11: every completed check_all_services holds a report of exactly four
\* entries named Gateway, Ollama, Docker, SearXNG in that order, with fixed
\* ports and no details, whatever the probes met; the running flag of each
\* entry is decided by that entry's own probe only.
C11_CollectShape ==
    \A c \in Callers :
        CollectDone(c) =>
            /\ Names(report[c]) = <<"Gateway", "Ollama", "Docker", "SearXNG">>
            /\ [i \in 1..4 |-> report[c][i].port] = <<18789, 11434, 0, 8888>>
            /\ \A i \in 1..4 : report[c][i].details = <<>>
            /\ report[c][1].running = seen[c].gw.flag
            /\ report[c][2].running = (seen[c].ollama = "http_200")
            /\ report[c][3].running = (seen[c].docker = "exit_zero")
            /\ report[c][4].running = UpInStdout(seen[c].ps)

\* a report built while every probe failed
C11_Witness ==
    \E c \in Callers :
        /\ CollectDone(c)
        /\ Len(report[c]) = 4
        /\ \A i \in 1..4 : ~report[c][i].running
        /\ seen[c].ollama = "refused"
        /\ seen[c].docker = "spawn_error"
        /\ seen[c].ps.err

\* C12: in a check_all_services report the Docker and the SearXNG entry have
\* health "not installed" exactly when the docker binary could not be
\* invoked, and "not running" when it could be invoked but reported a
\* failing status query or no active instance.
C12_NotInstalledIffBinaryAbsent ==
    \A c \in Callers :
        CollectDone(c) =>
            /\ (report[c][3].health = "not installed")
                  <=> (seen[c].docker = "spawn_error")
            /\ (seen[c].docker = "exit_nonzero")
                  => (report[c][3].health = "not running")
            /\ (report[c][4].health = "not installed") <=> seen[c].ps.err
            /\ (~seen[c].ps.err /\ ~UpInStdout(seen[c].ps))
                  => (report[c][4].health = "not running")

\* C13: auto_start issues exactly one Start and its first entry records the
\* outcome: Ok gives running with health "starting"; any Err gives not
\* running, health "error" and the returned message as details.
C13_BootEntryRecordsStart ==
    \A c \in Callers :
        AutoDone(c) =>
            /\ Cardinality({i \in 1..Len(starts[c]) :
                               starts[c][i] = "Gateway"}) = 1
            /\ seen[c].gw.kind \in {"ok", "err"}
            /\ Len(report[c]) >= 1
            /\ report[c][1] =
                 IF seen[c].gw.kind = "ok"
                 THEN [name |-> "Gateway", running |-> TRUE, port |-> 18789,
                       health |-> "starting",
                       details |-> <<"Some", "Gateway process started">>]
                 ELSE [name |-> "Gateway", running |-> FALSE, port |-> 18789,
                       health |-> "error",
                       details |-> <<"Some">> \o seen[c].gw.err]

\* auto_start whose Start failed because the spawn failed
C13_Witness ==
    \E c \in Callers :
        /\ AutoDone(c)
        /\ seen[c].gw.kind = "err"
        /\ seen[c].gw.err[1] = SpawnFailedPrefix
        /\ report[c][1].health = "error"
        /\ report[c][1].details = <<"Some", SpawnFailedPrefix, oserr[c]>>

\* C14 as claimed: after the Gateway entry the auto_start report holds an
\* entry for Ollama, Docker and SearXNG in that order, and the only start
\* auto_start issues is the Gateway's.
C14_BootReportsAllServices ==
    \A c \in Callers :
        AutoDone(c) =>
            /\ Names(report[c]) = <<"Gateway", "Ollama", "Docker", "SearXNG">>
            /\ starts[c] = <<"Gateway">>

\* C14 amended: after the Gateway entry the auto_start report holds exactly
\* one more entry, the observed status of Ollama; it has no Docker and no
\* SearXNG entry; and the only start auto_start issues is the Gateway's.
C14_BootReportsOllamaOnly ==
    \A c \in Callers :
        AutoDone(c) =>
            /\ Names(report[c]) = <<"Gateway", "Ollama">>
            /\ report[c][2].running = (seen[c].ollama = "http_200")
            /\ report[c][2].port = 11434
            /\ starts[c] = <<"Gateway">>

\* auto_start completed while Ollama was down: observed, not started
C14_Witness ==
    \E c \in Callers :
        /\ AutoDone(c)
        /\ seen[c].ollama = "refused"
        /\ ~report[c][2].running
        /\ Len(report[c]) = 2

\* C15 as claimed: the Gateway entry of check_all_services is "healthy" when
\* is_gateway_running is true, otherwise "error" with the failure in details
\* if the most recent Start attempt failed, and "not running" otherwise.
\* (Stated for the calls during which no Start attempt returned: the most
\* recent attempt is the same when the call begins and when the entry is
\* built.)
C15_CollectCarriesStartError ==
    \A c \in Callers :
        (CollectDone(c) /\ seen[c].lastStart0 = seen[c].lastStart) =>
            /\ report[c][1].health =
                 IF seen[c].gw.flag THEN "healthy"
                 ELSE IF seen[c].lastStart # <<>> THEN "error"
                 ELSE "not running"
            /\ (~seen[c].gw.flag /\ seen[c].lastStart # <<>>) =>
                  report[c][1].details = <<"Some">> \o seen[c].lastStart

\* C15 amended: the Gateway entry of check_all_services is "healthy" when
\* is_gateway_running is true and "not running" with no details when it is
\* false, whether or not the most recent Start attempt failed.
C15_CollectIgnoresStartError ==
    \A c \in Callers :
        CollectDone(c) =>
            report[c][1] =
                [name |-> "Gateway", running |-> seen[c].gw.flag,
                 port |-> 18789,
                 health |-> IF seen[c].gw.flag
                            THEN "healthy" ELSE "not running",
                 details |-> <<>>]

\* a report built right after a Start whose spawn failed
C15_Witness ==
    \E c \in Callers :
        /\ CollectDone(c)
        /\ seen[c].lastStart0 = seen[c].lastStart
        /\ Len(seen[c].lastStart) = 2
        /\ seen[c].lastStart[1] = SpawnFailedPrefix
        /\ report[c][1].health = "not running"

\* health the claim assigns to function k's entry for service n
ExpectedHealth(k, n, r) ==
    IF k = "auto_start" /\ n = "Gateway"
    THEN (IF r THEN "starting" ELSE "error")
    ELSE IF n = "Docker"
    THEN (IF r THEN "available" ELSE "not installed")
    ELSE (IF r THEN "healthy" ELSE "not running")

\* C16: in every entry produced by check_all_services, auto_start or
\* gateway_status, health is the value fixed by the service and the entry's
\* own running flag; with no Start ever succeeded and Ollama unreachable
\* the Gateway and Ollama entries are not running / "not running"; the
\* Ollama entry is never "not installed".
C16_HealthFromRunning ==
    \A c \in Callers :
        /\ (CollectDone(c) \/ AutoDone(c)) =>
              \A i \in 1..Len(report[c]) :
                 /\ report[c][i].health =
                       ExpectedHealth(cmd[c], report[c][i].name,
                                      report[c][i].running)
                 /\ report[c][i].name = "Ollama" =>
                       report[c][i].health \in {"healthy", "not running"}
        /\ StatusDone(c) =>
              /\ report[c][1].running = seen[c].gw.flag
              /\ report[c][1].health =
                    ExpectedHealth(cmd[c], "Gateway", report[c][1].running)
        /\ (CollectDone(c) /\ nextPid = 1) =>
              /\ ~report[c][1].running
              /\ report[c][1].health = "not running"
        /\ (CollectDone(c) /\ seen[c].ollama # "http_200") =>
              /\ ~report[c][2].running
              /\ report[c][2].health = "not running"

\* supervisor never started, Ollama unreachable
C16_Witness ==
    \E c \in Callers :
        /\ CollectDone(c)
        /\ nextPid = 1
        /\ seen[c].ollama = "refused"
        /\ report[c][1].health = "not running"
        /\ report[c][2].health = "not running"

\* ------------------------------------------------ lock, liveness, output
InBody(c) == pc[c] \in {"locked", "killing", "probing"}

\* C17: a caller is inside the body of Start, Stop, IsRunning or Logs
\* exactly while it holds the lock, so at most one caller is inside a body;
\* a caller that has returned, on any path, does not hold the lock, and the
\* lock is free whenever no caller is inside a body.
C17_LockDiscipline ==
    /\ \A c \in Callers : InBody(c) <=> (holder = c)
    /\ Cardinality({c \in Callers : InBody(c)}) <= 1
    /\ (holder = NoCaller) <=> (\A c \in Callers : ~InBody(c))

\* after a Stop returned an error, the other caller took the lock
C17_Witness ==
    \E c, d \in Callers :
        /\ c # d
        /\ Returned(c, "stop")
        /\ res[c].kind = "err"
        /\ holder = d
        /\ pc[d] = "locked"

\* C18: every IsRunning call that is waiting for the health endpoint
\* eventually returns, and every call waiting for the lock eventually gets
\* it, also when the endpoint accepts the connection and never answers.
C18_HungProbeReturns ==
    \A c \in Callers :
        /\ (pc[c] = "probing") ~> (pc[c] = "idle")
        /\ (pc[c] = "wait_lock") ~> (pc[c] # "wait_lock")

\* C19 as claimed: a Logs call never has to wait for a step of the child,
\* also not while a concurrent Stop is waiting for the child to exit.
C19_LogsNeverBehindKill ==
    \A c, d \in Callers :
        (op[c] = "logs" /\ pc[c] = "wait_lock") => pc[d] # "killing"

\* C19 amended: Logs itself never waits on the child: it waits for the lock
\* only, takes it as soon as it is free, and once it holds the lock it can
\* return whatever the child does; so it can be behind a Stop that is
\* waiting for the child to exit, and only then depends on the child.
C19_LogsWaitsForLockOnly ==
    \A c \in Callers :
        op[c] = "logs" =>
            /\ pc[c] \in {"idle", "wait_lock", "locked"}
            /\ (pc[c] = "wait_lock" /\ holder = NoCaller) => ENABLED Acquire(c)
            /\ (pc[c] = "locked") => ENABLED GetGatewayLogs(c)

\* Logs holds the lock while the child is alive
C19_Witness ==
    \E c \in Callers :
        /\ op[c] = "logs"
        /\ pc[c] = "locked"
        /\ child # None
        /\ child \in procs

\* the tracked child has exited (or was killed) and nobody reaped the handle
StaleHandle == child # None /\ child \notin procs

\* C21: once a handle is tracked, only a Stop that returns Ok clears it, and
\* nothing replaces it: the exit of the child leaves the handle in place.
\* While the handle of an exited child is tracked, every Start returns the
\* AlreadyRunning error and spawns nothing, and every IsRunning goes on to
\* issue its probe.
C21_StaleHandleStays ==
    [][/\ (child # None /\ child' # child) =>
             /\ child' = None
             /\ \E c \in Callers : Returns(c, "stop") /\ res'[c] = OkUnit
       /\ (procs' # procs /\ \A c \in Callers : pc'[c] = pc[c]) =>
             /\ child' = child
             /\ logs' = logs
       /\ \A c \in Callers :
            /\ (Returns(c, "start") /\ StaleHandle) =>
                  /\ res'[c] = Err(AlreadyRunningMsg)
                  /\ child' = child
                  /\ procs' = procs
            /\ (pc[c] = "locked" /\ op[c] = "is_running" /\ StaleHandle
                  /\ pc'[c] # "locked") =>
                  /\ pc'[c] = "probing"
                  /\ probed'[c]
                  /\ child' = child]_vars

\* the child of the only successful Start exited, then IsRunning took the
\* lock and issued its probe; a Start was answered AlreadyRunning and no
\* Stop was ever called
C21_Witness ==
    \E c, d \in Callers :
        /\ c # d
        /\ pc[d] = "probing"
        /\ probed[d]
        /\ pre[d].child = 1
        /\ ~pre[d].alive
        /\ StaleHandle
        /\ Returned(c, "start")
        /\ res[c] = Err(AlreadyRunningMsg)
        /\ calls = 3

\* started, stopped, started, ... from the first entry on
Alternating(l) ==
    \A i \in 1..Len(l) :
        l[i] = IF i % 2 = 1 THEN StartedMarker ELSE StoppedMarker

\* caller c's call returns in this step without having succeeded as a Start
\* or a Stop: an IsRunning, a Logs, or a Start or Stop that returns an error
ReturnsWithoutEffect(c) ==
    \/ Returns(c, "is_running")
    \/ Returns(c, "logs")
    \/ Returns(c, "start") /\ res'[c].kind = "err"
    \/ Returns(c, "stop") /\ res'[c].kind = "err"

\* C22: in every reachable state the log buffer alternates "started" and
\* "stopped" markers beginning with "started", and a handle is tracked
\* exactly when the buffer is non-empty and ends with a "started" marker.
\* IsRunning, Logs and every Start or Stop that fails return with the handle
\* and the buffer they found, and no step other than the return of a
\* successful Start or Stop changes either.
C22_MarkersAlternate ==
    /\ [](/\ Alternating(logs)
          /\ (child # None) <=>
                (Len(logs) > 0 /\ logs[Len(logs)] = StartedMarker))
    /\ [][/\ \A c \in Callers :
               ReturnsWithoutEffect(c) =>
                  /\ child' = pre[c].child
                  /\ logs' = pre[c].logs
          /\ (child' # child \/ logs' # logs) =>
                \E c \in Callers :
                    /\ Returns(c, "start") \/ Returns(c, "stop")
                    /\ res'[c] = OkUnit]_vars

\* second cycle: after start, stop, start a Stop failed in kill and a Logs
\* call returned the three markers; handle 2 is still tracked
C22_Witness ==
    \E c, d \in Callers :
        /\ c # d
        /\ Returned(c, "stop")
        /\ oserr[c] \in KillErrors
        /\ Returned(d, "logs")
        /\ res[d].out = <<StartedMarker, StoppedMarker, StartedMarker>>
        /\ logs = res[d].out
        /\ child = 2

\* the Start called by c's auto_start returns in this step
BootStartReturns(c) ==
    /\ Returns(c, "start")
    /\ cmd[c] = "auto_start"
    /\ cpc[c] = "gw"

\* C23: when the Start called by auto_start returns, the Gateway entry that
\* auto_start builds from the returned value agrees with the supervisor at
\* that moment, also when user start/stop commands run concurrently: the
\* entry has running = false only if no handle is tracked then, and
\* running = true only if a handle is tracked then.
C23_BootEntryAgreesWithHandle ==
    [][\A c \in Callers :
         BootStartReturns(c) =>
            /\ ~BootGatewayEntry(res'[c]).running => child' = None
            /\ BootGatewayEntry(res'[c]).running => child' # None]_vars

\* C20: every line the running child writes to its stdout or stderr is
\* eventually in the log buffer.
C20_ChildOutputReachesLogs ==
    \A l \in ChildLines :
        (\E i \in 1..Len(pipe) : pipe[i] = l)
            ~> (\E i \in 1..Len(logs) : logs[i] = l)
====
